---- MODULE Spec2Model ----
(***************************************************************************)
(* GIFConverter (menubar_runcat): the Tkinter and the flet front end, the  *)
(* frame exporter export_frames and the config writer write_config they    *)
(* share, over a small file system.                                        *)
(*                                                                         *)
(* Texts (field contents, file names, path strings) are tuples of one      *)
(* character strings, so that strip(), int(), str() and the f-string that  *)
(* names a frame file are computed character by character.  A path is the  *)
(* tuple of its components from the root.                                  *)
(***************************************************************************)
EXTENDS Integers, Sequences, FiniteSets, TLC

VARIABLES
    variant,    \* which front end runs: "Tkinter" or "flet"
    dirs,       \* file system: the set of paths that are directories
    files,      \* file system: path -> content, for the paths that are files
    gif_path,   \* App.gif_path (Tkinter) / selected_gif_path[0] (flet)
    form,       \* the text fields: title, gif_id, file_pattern, height,
                \* width, output_dir
    call,       \* the arguments of a direct call of export_frames or
                \* write_config
    result,     \* what the handler or call that just ran did
    shown,      \* the message box (Tkinter) / status_text (flet)
    pc          \* "idle" / "reported" in the front end; "ready" / "done"
                \* around a direct call

vars == <<variant, dirs, files, gif_path, form, call, result, shown, pc>>

(***************************************************************************)
(* Bounds of the sweeps over frame sizes and target heights.               *)
(***************************************************************************)
MaxDim == 11
MaxHeight == 15

(***************************************************************************)
(* Python str: strip(), int(), str(int).                                   *)
(***************************************************************************)
Digits == <<"0", "1", "2", "3", "4", "5", "6", "7", "8", "9">>

IsDigit(c) == \E i \in 1..10 : Digits[i] = c

DigitVal(c) == (CHOOSE i \in 1..10 : Digits[i] = c) - 1

IsSpace(c) == c \in {" ", "\t", "\n"}

RECURSIVE LStrip(_)
LStrip(s) == IF s # <<>> /\ IsSpace(Head(s)) THEN LStrip(Tail(s)) ELSE s

RECURSIVE RStrip(_)
RStrip(s) ==
    IF s # <<>> /\ IsSpace(s[Len(s)]) THEN RStrip(SubSeq(s, 1, Len(s) - 1)) ELSE s

\* str.strip()
Strip(s) == RStrip(LStrip(s))

RECURSIVE RStripZeros(_)
RStripZeros(s) ==
    IF s # <<>> /\ s[Len(s)] = "0" THEN RStripZeros(SubSeq(s, 1, Len(s) - 1)) ELSE s

RECURSIVE DigitsVal(_, _)
DigitsVal(s, acc) ==
    IF s = <<>> THEN acc ELSE DigitsVal(Tail(s), 10 * acc + DigitVal(Head(s)))

\* int(text): surrounding whitespace, one optional sign, decimal digits.
\* [ok |-> FALSE] stands for the ValueError int() raises.
ParseInt(text) ==
    LET s == Strip(text)
        signed == s # <<>> /\ Head(s) \in {"+", "-"}
        body == IF signed THEN Tail(s) ELSE s
    IN  IF body # <<>> /\ \A i \in 1..Len(body) : IsDigit(body[i])
        THEN [ok |-> TRUE,
              val |-> IF signed /\ Head(s) = "-"
                      THEN 0 - DigitsVal(body, 0) ELSE DigitsVal(body, 0)]
        ELSE [ok |-> FALSE, val |-> 0]

RECURSIVE StrOfNat(_)
\* str(n) of a natural number, as the f-string formats the frame index:
\* decimal, no padding.
StrOfNat(n) ==
    IF n < 10 THEN <<Digits[n + 1]>>
    ELSE Append(StrOfNat(n \div 10), Digits[(n % 10) + 1])

StrOfInt(n) == IF n < 0 THEN <<"-">> \o StrOfNat(0 - n) ELSE StrOfNat(n)

(***************************************************************************)
(* Python float (IEEE 754 binary64) for the one expression that uses it:   *)
(* int(width * (target_height / height)).  A positive float is             *)
(* [m |-> its 53 significand bits, most significant first, e |-> the       *)
(* exponent of its last bit].                                              *)
(***************************************************************************)
MantBits == 53

\* Long division and multiplication go 13 bits at a time, so that every
\* intermediate value stays below 2^31 for operands below 2^17.
LimbBits == 13

Pow2(n) == 2 ^ n

\* The number of bits of n >= 0 (0 for n = 0).
BitLen(n) == CHOOSE b \in 0..30 : n < Pow2(b) /\ (b = 0 \/ n >= Pow2(b - 1))

\* The n low bits of c, most significant first.
ChunkBits(c, n) == [i \in 1..n |-> (c \div Pow2(n - i)) % 2]

RECURSIVE BitsVal(_)
\* The number a bit sequence denotes (halving keeps the recursion shallow).
BitsVal(b) ==
    IF Len(b) = 0 THEN 0
    ELSE IF Len(b) = 1 THEN b[1]
    ELSE LET h == Len(b) \div 2
         IN  BitsVal(SubSeq(b, 1, h)) * Pow2(Len(b) - h)
                 + BitsVal(SubSeq(b, h + 1, Len(b)))

\* bits + 1; the result is one bit longer when every bit was 1.
BitsInc(b) ==
    IF \A i \in 1..Len(b) : b[i] = 1
    THEN <<1>> \o [i \in 1..Len(b) |-> 0]
    ELSE LET j == CHOOSE i \in 1..Len(b) :
                      b[i] = 0 /\ \A l \in (i + 1)..Len(b) : b[l] = 1
         IN  [i \in 1..Len(b) |-> IF i < j THEN b[i] ELSE IF i = j THEN 1 ELSE 0]

\* Round to nearest, ties to even: m is the kept bits, guard the first
\* dropped bit, sticky whether any later dropped bit is set.
RoundBits(m, e, guard, sticky) ==
    LET up == guard = 1 /\ (sticky \/ m[Len(m)] = 1)
        inc == BitsInc(m)
    IN  IF ~up THEN [m |-> m, e |-> e]
        ELSE IF Len(inc) > Len(m)
             THEN [m |-> SubSeq(inc, 1, Len(m)), e |-> e + 1]
             ELSE [m |-> inc, e |-> e]

\* The k with 2^k <= n/d < 2^(k+1), for n, d >= 1.
FloorLog2(n, d) ==
    IF n >= d THEN BitLen(n \div d) - 1
    ELSE 0 - BitLen(((d + n - 1) \div n) - 1)

\* Long division of nn by dd, where 1 <= nn/dd < 2 and the quotient is
\* 2^k times that: the leading 1, four limbs of quotient bits, then the guard
\* bit and whether anything is left, rounded to MantBits bits.
DivRound(nn, dd, k) ==
    LET B == Pow2(LimbBits)
        r0 == nn - dd
        r1 == (r0 * B) % dd
        r2 == (r1 * B) % dd
        r3 == (r2 * B) % dd
        r4 == (r3 * B) % dd
        m == <<1>> \o ChunkBits((r0 * B) \div dd, LimbBits)
                   \o ChunkBits((r1 * B) \div dd, LimbBits)
                   \o ChunkBits((r2 * B) \div dd, LimbBits)
                   \o ChunkBits((r3 * B) \div dd, LimbBits)
    IN  RoundBits(m, k - (MantBits - 1), (2 * r4) \div dd, (2 * r4) % dd > 0)

\* n / d scaled by 2^(-k).
DivScaled(n, d, k) ==
    DivRound(IF k < 0 THEN n * Pow2(0 - k) ELSE n,
             IF k > 0 THEN d * Pow2(k) ELSE d, k)

\* The float n / d of two positive integers (true division, correctly
\* rounded).
FloatDiv(n, d) == DivScaled(n, d, FloorLog2(n, d))

\* The bits of m * w for a 53-bit m and a positive integer w, limb by limb
\* from the low end with the carries.
MulBits(m, w) ==
    LET B == Pow2(LimbBits)
        t0 == w * BitsVal(SubSeq(m, 41, 53))
        t1 == w * BitsVal(SubSeq(m, 28, 40)) + (t0 \div B)
        t2 == w * BitsVal(SubSeq(m, 15, 27)) + (t1 \div B)
        t3 == w * BitsVal(SubSeq(m, 2, 14)) + (t2 \div B)
        t4 == w * m[1] + (t3 \div B)
    IN  ChunkBits(t4, BitLen(t4)) \o ChunkBits(t3 % B, LimbBits)
            \o ChunkBits(t2 % B, LimbBits) \o ChunkBits(t1 % B, LimbBits)
            \o ChunkBits(t0 % B, LimbBits)

\* The product bits p rounded to MantBits bits; e is the exponent of p's
\* last bit.
RoundProduct(p, e) ==
    IF Len(p) = MantBits THEN [m |-> p, e |-> e]
    ELSE RoundBits(SubSeq(p, 1, MantBits), e + (Len(p) - MantBits),
                   p[MantBits + 1],
                   \E i \in (MantBits + 2)..Len(p) : p[i] = 1)

\* The float w * f of a positive integer w (exact as a float) and a float.
FloatMul(w, f) == RoundProduct(MulBits(f.m, w), f.e)

\* int(f) of a positive float below 2^31: the bits left of the binary point.
FloatTrunc(f) ==
    LET keep == MantBits + f.e
    IN  IF keep <= 0 THEN 0 ELSE BitsVal(SubSeq(f.m, 1, keep))

\* Mutant: the quotient rounded to nearest (half up), not truncated.
DerivedWidth_Rounded(width, height, target_height) == (2 * width * target_height + height) \div (2 * height)

\* int(width * (target_height / height)) for width, height >= 1: the
\* quotient is rounded to a float, the product is rounded again, int()
\* truncates toward zero.  Signs are symmetric in IEEE arithmetic.
DerivedWidth(width, height, target_height) ==
    IF target_height = 0 THEN 0
    ELSE IF target_height < 0
         THEN 0 - FloatTrunc(FloatMul(width, FloatDiv(0 - target_height, height)))
         ELSE FloatTrunc(FloatMul(width, FloatDiv(target_height, height)))

(***************************************************************************)
(* Optional[int]: None, or the integer.                                    *)
(***************************************************************************)
None == <<>>

Some(n) == <<n>>

\* Python's truth value of an Optional[int]: None and 0 are false.
Truthy(x) == x # None /\ x[1] # 0

(***************************************************************************)
(* pathlib and the file system.  fs is [dirs, files].                      *)
(***************************************************************************)
RECURSIVE Split(_, _, _)
\* The components of a path string: the runs of characters between "/".
Split(s, cur, acc) ==
    IF s = <<>> THEN (IF cur = <<>> THEN acc ELSE Append(acc, cur))
    ELSE IF Head(s) = "/"
         THEN Split(Tail(s), <<>>, IF cur = <<>> THEN acc ELSE Append(acc, cur))
         ELSE Split(Tail(s), Append(cur, Head(s)), acc)

\* Path(a) / b: an absolute b replaces a.
Join(dir, text) ==
    IF text # <<>> /\ Head(text) = "/" THEN Split(text, <<>>, <<>>)
    ELSE dir \o Split(text, <<>>, <<>>)

Parent(p) == IF p = <<>> THEN p ELSE SubSeq(p, 1, Len(p) - 1)

IsDir(fs, p) == p \in fs.dirs

IsFile(fs, p) == p \in DOMAIN fs.files

Exists(fs, p) == IsDir(fs, p) \/ IsFile(fs, p)

\* Some proper prefix of p is a file, so p cannot be resolved (ENOTDIR).
UnderFile(fs, p) == \E i \in 0..(Len(p) - 1) : IsFile(fs, SubSeq(p, 1, i))

\* os.mkdir(p)
OsMkdir(fs, p) ==
    IF UnderFile(fs, p) THEN [fs |-> fs, err |-> "NotADirectoryError"]
    ELSE IF Exists(fs, p) THEN [fs |-> fs, err |-> "FileExistsError"]
    ELSE IF ~IsDir(fs, Parent(p)) THEN [fs |-> fs, err |-> "FileNotFoundError"]
    ELSE [fs |-> [fs EXCEPT !.dirs = @ \cup {p}], err |-> "none"]

\* Mutant: exist_ok swallows every OSError, without the is_dir() check.
PathMkdir_NoIsDir(fs, p, parents, exist_ok) ==
    IF OsMkdir(fs, p).err = "none" THEN OsMkdir(fs, p)
    ELSE IF exist_ok THEN [fs |-> fs, err |-> "none"]
    ELSE OsMkdir(fs, p)

RECURSIVE PathMkdir(_, _, _, _)
\* Path.mkdir(parents=..., exist_ok=...)
PathMkdir(fs, p, parents, exist_ok) ==
    LET r == OsMkdir(fs, p)
    IN  IF r.err = "none" THEN r
        ELSE IF r.err = "FileNotFoundError"
        THEN IF ~parents \/ p = <<>> THEN r
             ELSE LET up == PathMkdir(fs, Parent(p), TRUE, TRUE)
                  IN  IF up.err # "none" THEN up
                      ELSE PathMkdir(up.fs, p, FALSE, exist_ok)
        ELSE IF ~exist_ok \/ ~IsDir(fs, p) THEN r
        ELSE [fs |-> fs, err |-> "none"]

\* open(p, "w") and write: creates or replaces the file p.
WriteFile(fs, p, content) ==
    IF UnderFile(fs, p) THEN [fs |-> fs, err |-> "NotADirectoryError"]
    ELSE IF IsDir(fs, p) THEN [fs |-> fs, err |-> "IsADirectoryError"]
    ELSE IF ~IsDir(fs, Parent(p)) THEN [fs |-> fs, err |-> "FileNotFoundError"]
    ELSE [fs |-> [fs EXCEPT !.files =
                     [q \in DOMAIN fs.files \cup {p} |->
                         IF q = p THEN content ELSE fs.files[q]]],
          err |-> "none"]

(***************************************************************************)
(* Pillow, as export_frames uses it.  An image file holds frames           *)
(* [px, size, ok]: px names the picture, size is <<width, height>>, ok is  *)
(* FALSE for a frame whose data cannot be decoded.                         *)
(***************************************************************************)
\* Image.open(gif_path)
ImageOpen(fs, p) ==
    IF IsDir(fs, p) THEN [err |-> "IsADirectoryError", frames |-> <<>>]
    ELSE IF ~IsFile(fs, p) THEN [err |-> "FileNotFoundError", frames |-> <<>>]
    ELSE IF fs.files[p].kind # "image"
         THEN [err |-> "UnidentifiedImageError", frames |-> <<>>]
    ELSE [err |-> "none", frames |-> fs.files[p].frames]

\* ImageSequence.Iterator(gif): the frames in file order.
ImageSequenceIterator(frames) == frames

\* rgba_frame.resize(resize_to, LANCZOS): both sides must be at least 1.
Resize(frame, resize_to) ==
    IF resize_to[1] < 1 \/ resize_to[2] < 1
    THEN [err |-> "ValueError", img |-> <<>>]
    ELSE [err |-> "none",
          img |-> [kind |-> "png", px |-> frame.px, mode |-> "RGBA",
                   size |-> resize_to]]

(***************************************************************************)
(* export_frames                                                           *)
(***************************************************************************)
\* The size a frame is resized to.
ResizeTo(size, target_height, target_width) ==
    IF Truthy(target_width) THEN <<target_width[1], target_height>>
    ELSE <<DerivedWidth(size[1], size[2], target_height), target_height>>

PngSuffix == <<".", "p", "n", "g">>

\* Mutant: the index padded to two digits.
OutputFilename_Padded(file_pattern, index) == file_pattern \o (IF index < 10 THEN <<"0">> ELSE <<>>) \o StrOfNat(index) \o PngSuffix

\* f"{file_pattern}{index}.png"
OutputFilename(file_pattern, index) ==
    file_pattern \o StrOfNat(index) \o PngSuffix

\* One pass of the loop body for a frame: convert to RGBA (which decodes
\* the frame), resize, save under path.  [fs, err].
LoopBody(fs, frame, resize_to, path) ==
    IF ~frame.ok THEN [fs |-> fs, err |-> "OSError"]
    ELSE IF Resize(frame, resize_to).err # "none"
         THEN [fs |-> fs, err |-> Resize(frame, resize_to).err]
    ELSE WriteFile(fs, path, Resize(frame, resize_to).img)

\* Mutant: the count is set, not incremented.
NextFrameCount_Set(frame_count) == 1

\* frame_count += 1
NextFrameCount(frame_count) == frame_count + 1

RECURSIVE ExportLoop(_, _, _, _, _, _, _, _, _)
RECURSIVE ExportStep(_, _, _, _, _, _, _, _, _, _, _)
\* The for loop over enumerate(frames), from position index on, with the
\* frame_count so far.  written lists the paths saved so far, in the order
\* they were saved.  [fs, err, ret, written, index].
ExportLoop(fs, frames, index, frame_count, frames_dir, file_pattern, target_height, target_width, written) ==
    IF index >= Len(frames)
    THEN [fs |-> fs, err |-> "none", ret |-> Some(frame_count),
          written |-> written, index |-> index]
    ELSE ExportStep(LoopBody(fs, frames[index + 1],
                             ResizeTo(frames[index + 1].size, target_height,
                                      target_width),
                             Join(frames_dir, OutputFilename(file_pattern, index))),
                    Join(frames_dir, OutputFilename(file_pattern, index)),
                    fs, frames, index, frame_count, frames_dir, file_pattern,
                    target_height, target_width, written)

\* After one pass: the error leaves the loop, otherwise the next frame.
ExportStep(body, path, fs, frames, index, frame_count, frames_dir, file_pattern, target_height, target_width, written) ==
    IF body.err # "none"
    THEN [fs |-> fs, err |-> body.err, ret |-> None, written |-> written,
          index |-> index]
    ELSE ExportLoop(body.fs, frames, index + 1, NextFrameCount(frame_count),
                    frames_dir, file_pattern, target_height, target_width,
                    Append(written, path))

\* The rest of export_frames once Image.open has answered.
ExportOpened(img, fs, frames_dir, file_pattern, target_height, target_width) ==
    IF img.err # "none"
    THEN [fs |-> fs, err |-> img.err, ret |-> None, written |-> <<>>,
          stage |-> "open", index |-> 0]
    ELSE [stage |-> "loop"] @@
         ExportLoop(fs, ImageSequenceIterator(img.frames), 0, 0, frames_dir,
                    file_pattern, target_height, target_width, <<>>)

\* The rest of export_frames once frames_dir.mkdir has answered.
ExportMade(made, gif, frames_dir, file_pattern, target_height, target_width) ==
    IF made.err # "none"
    THEN [fs |-> made.fs, err |-> made.err, ret |-> None, written |-> <<>>,
          stage |-> "mkdir", index |-> 0]
    ELSE ExportOpened(ImageOpen(made.fs, gif), made.fs, frames_dir,
                      file_pattern, target_height, target_width)

\* export_frames(gif_path, frames_dir, file_pattern, target_height,
\* target_width): [fs after, err raised or "none", ret the value returned,
\* written the paths saved, stage where it was when it ended ("mkdir",
\* "open", "loop"), index the loop position at the end or at the error].
export_frames(fs, gif, frames_dir, file_pattern, target_height, target_width) ==
    ExportMade(PathMkdir(fs, frames_dir, TRUE, TRUE), gif, frames_dir,
               file_pattern, target_height, target_width)

(***************************************************************************)
(* json.dumps and json.loads.  A JSON value is <<"str", text>>,            *)
(* <<"int", n>>, <<"float", m, e>> (m * 10^e, m not a multiple of 10),     *)
(* <<"bool", b>>, <<"null">> or <<"obj", members>> with members a sequence *)
(* of <<key, value>>.  The document is the sequence of the tokens dumps    *)
(* writes: punctuation, keys, and the literal text of each scalar.         *)
(***************************************************************************)
JStr(s) == <<"str", s>>

JInt(n) == <<"int", n>>

JFloat(m, e) == <<"float", m, e>>

JBool(b) == <<"bool", b>>

JNull == <<"null">>

JObj(members) == <<"obj", members>>

\* An Optional[int] as a JSON value: None is null.
JOptInt(x) == IF x = None THEN JNull ELSE JInt(x[1])

RECURSIVE Escape(_)
\* The characters of a string literal: quote and backslash get a backslash
\* (ensure_ascii=False leaves every other character as it is).
Escape(s) ==
    IF s = <<>> THEN <<>>
    ELSE IF Head(s) \in {"\"", "\\"} THEN <<"\\", Head(s)>> \o Escape(Tail(s))
    ELSE <<Head(s)>> \o Escape(Tail(s))

RECURSIVE Unescape(_)
Unescape(s) ==
    IF s = <<>> THEN <<>>
    ELSE IF Head(s) = "\\" /\ Len(s) >= 2
         THEN <<s[2]>> \o Unescape(Tail(Tail(s)))
    ELSE <<Head(s)>> \o Unescape(Tail(s))

\* repr of the float m * 10^e with e < 0 and m < 10^(-e): "0.", zeros, m.
FloatRepr(m, e) ==
    LET d == StrOfNat(m)
    IN  <<"0", ".">> \o [i \in 1..((0 - e) - Len(d)) |-> "0"] \o d

\* The literal text of a scalar.
Literal(v) ==
    IF v[1] = "str" THEN <<"\"">> \o Escape(v[2]) \o <<"\"">>
    ELSE IF v[1] = "int" THEN StrOfInt(v[2])
    ELSE IF v[1] = "float" THEN FloatRepr(v[2], v[3])
    ELSE IF v[1] = "bool"
         THEN (IF v[2] THEN <<"t", "r", "u", "e">> ELSE <<"f", "a", "l", "s", "e">>)
    ELSE <<"n", "u", "l", "l">>

RECURSIVE Dumps(_)
RECURSIVE DumpMembers(_, _)
\* json.dumps(value): the tokens of the document.
Dumps(v) ==
    IF v[1] = "obj"
    THEN <<[t |-> "{"]>> \o DumpMembers(v[2], 1) \o <<[t |-> "}"]>>
    ELSE <<[t |-> "lit", text |-> Literal(v)]>>

DumpMembers(members, i) ==
    IF i > Len(members) THEN <<>>
    ELSE <<[t |-> "key", text |-> members[i][1]], [t |-> ":"]>>
             \o Dumps(members[i][2])
             \o (IF i < Len(members) THEN <<[t |-> ","]>> ELSE <<>>)
             \o DumpMembers(members, i + 1)

\* The fraction digits of a float literal as <<"float", m, e>>.
ParseFraction(frac) ==
    LET f == RStripZeros(frac)
    IN  JFloat(DigitsVal(f, 0), 0 - Len(f))

\* The value of a scalar's literal text.
ParseLiteral(text) ==
    IF Head(text) = "\"" THEN JStr(Unescape(SubSeq(text, 2, Len(text) - 1)))
    ELSE IF text = <<"n", "u", "l", "l">> THEN JNull
    ELSE IF text = <<"t", "r", "u", "e">> THEN JBool(TRUE)
    ELSE IF text = <<"f", "a", "l", "s", "e">> THEN JBool(FALSE)
    ELSE IF \E i \in 1..Len(text) : text[i] = "."
         THEN ParseFraction(SubSeq(text, 3, Len(text)))
    ELSE JInt(ParseInt(text).val)

RECURSIVE ParseValue(_, _)
RECURSIVE ParseMembers(_, _, _)
\* json.loads from token i on: [val, next] with next the first token after
\* the value.
ParseValue(toks, i) ==
    IF toks[i].t = "{" THEN ParseMembers(toks, i + 1, <<>>)
    ELSE [val |-> ParseLiteral(toks[i].text), next |-> i + 1]

ParseMembers(toks, i, acc) ==
    IF toks[i].t = "}" THEN [val |-> JObj(acc), next |-> i + 1]
    ELSE IF toks[i].t = "," THEN ParseMembers(toks, i + 1, acc)
    ELSE LET v == ParseValue(toks, i + 2)
         IN  ParseMembers(toks, v.next, Append(acc, <<toks[i].text, v.val>>))

\* json.loads(document)
Loads(toks) == ParseValue(toks, 1).val

(***************************************************************************)
(* write_config                                                            *)
(***************************************************************************)
FRAMES == <<"f", "r", "a", "m", "e", "s">>

\* The config dictionary both variants build; frame_directory is the
\* literal "frames" in the Tkinter variant and a parameter in the flet one.
ConfigDict(gif_id, title, file_pattern, width, height, frame_count, frame_directory) ==
    JObj(<<
        <<"id", JStr(gif_id)>>,
        <<"displayName", JStr(title)>>,
        <<"frameDirectory", JStr(frame_directory)>>,
        <<"filePattern", JStr(file_pattern)>>,
        <<"frameCount", JInt(frame_count)>>,
        <<"frameExtension", JStr(<<"p", "n", "g">>)>>,
        <<"frameSize", JObj(<< <<"width", JOptInt(width)>>,
                               <<"height", JInt(height)>> >>)>>,
        <<"template", JBool(FALSE)>>,
        <<"metric", JStr(<<"c", "p", "u">>)>>,
        <<"speedPolicy",
          JObj(<< <<"type", JStr(<<"c", "p", "u", "L", "i", "n", "e", "a", "r">>)>>,
                  <<"minInterval", JFloat(1, -2)>>,
                  <<"maxInterval", JFloat(4, -1)>> >>)>>
    >>)

\* Tkinter write_config(config_path, *, gif_id, title, file_pattern, width,
\* height, frame_count)
Tkinter_write_config(fs, config_path, gif_id, title, file_pattern, width, height, frame_count) ==
    WriteFile(fs, config_path,
              [kind |-> "json",
               text |-> Dumps(ConfigDict(gif_id, title, file_pattern, width,
                                         height, frame_count, FRAMES))])

\* flet write_config(config_path, *, gif_id, title, file_pattern, width,
\* height, frame_count, frame_directory="frames")
flet_write_config(fs, config_path, gif_id, title, file_pattern, width, height, frame_count, frame_directory) ==
    WriteFile(fs, config_path,
              [kind |-> "json",
               text |-> Dumps(ConfigDict(gif_id, title, file_pattern, width,
                                         height, frame_count, frame_directory))])

(***************************************************************************)
(* The file system the programs start in, and the texts a user can enter.  *)
(***************************************************************************)
Variants == {"Tkinter", "flet"}

\* BASE_DIR = Path(__file__).resolve().parent
BASE_DIR == << <<"a", "p", "p">> >>

\* The directory Path("") and relative paths resolve in.
CWD == BASE_DIR

MAIN_PY == <<"m", "a", "i", "n", ".", "p", "y">>

CONFIG_JSON == <<"c", "o", "n", "f", "i", "g", ".", "j", "s", "o", "n">>

Frame(px, w, h) == [px |-> px, size |-> <<w, h>>, ok |-> TRUE]

\* /s/a: three frames of different sizes.
GifA == [kind |-> "image",
         frames |-> <<Frame(<<"A", 0>>, 5, 3), Frame(<<"A", 1>>, 2, 3), Frame(<<"A", 2>>, 1, 3)>>]

\* /s/b: the second frame's data is truncated.
GifB == [kind |-> "image",
         frames |-> <<Frame(<<"B", 0>>, 4, 4),
                     [Frame(<<"B", 1>>, 4, 4) EXCEPT !.ok = FALSE]>>]

\* /s/c: eleven frames, so that frame indices reach two digits.
GifC == [kind |-> "image",
         frames |-> [i \in 1..11 |-> Frame(<<"C", i - 1>>, 2, 2)]]

PathA == << <<"s">>, <<"a">> >>
PathB == << <<"s">>, <<"b">> >>
PathC == << <<"s">>, <<"c">> >>
PathN == << <<"s">>, <<"n">> >>

\* Sources under /s (a, b, c images, n a text file), and the program's
\* directory /app with main.py and an existing directory e.
InitFs(a) ==
    [dirs |-> {<<>>, << <<"s">> >>, BASE_DIR, Append(BASE_DIR, <<"e">>)},
     files |-> [q \in {PathA, PathB, PathC, PathN, Append(BASE_DIR, MAIN_PY)} |->
                   IF q = PathA THEN a
                   ELSE IF q = PathB THEN GifB
                   ELSE IF q = PathC THEN GifC
                   ELSE [kind |-> "text"]]]

Fs == [dirs |-> dirs, files |-> files]

\* What the file dialogs can return and a user can type as the GIF path:
\* nothing, /s/a, /s/b, /s/n, the directory /s, a path that does not exist.
GifTexts ==
    {<<>>, <<"/", "s", "/", "a">>, <<"/", "s", "/", "b">>, <<"/", "s", "/", "n">>,
     <<"/", "s">>, <<"/", "s", "/", "z">>}

FieldTexts ==
    [title |-> {<<" ">>, <<"T">>},
     gif_id |-> {<<>>, <<"i">>},
     file_pattern |-> {<<>>, <<"p", "-">>},
     height |-> {<<>>, <<"x">>, <<"3">>, <<" ", "2", " ">>},
     width |-> {<<>>, <<"0">>, <<"4">>, <<"w">>},
     output_dir |-> {<<>>, <<"o">>, <<"e">>}]

Fields == DOMAIN FieldTexts

EmptyForm == [f \in Fields |-> <<>>]

NoCall == [op |-> "none"]

NoResult == [stage |-> "none"]

NothingShown == [kind |-> "none", msg |-> <<>>]

(***************************************************************************)
(* The front ends.                                                         *)
(***************************************************************************)
\* An error raised: where, and the message str(exc) gives.
Raise(stage, msg) == [stage |-> stage, err |-> msg]

Ok(val) == [stage |-> "ok", val |-> val]

\* App._require_text
_require_text(value, description) ==
    LET text == Strip(value)
    IN  IF text = <<>> THEN Raise("validation", <<"must not be empty", description>>)
        ELSE Ok(text)

\* App._require_int
_require_int(value, description) ==
    LET text == Strip(value)
    IN  IF text = <<>> THEN Raise("validation", <<"must not be empty", description>>)
        ELSE IF ~ParseInt(text).ok
             THEN Raise("validation", <<"must be an integer", description>>)
        ELSE Ok(ParseInt(text).val)

\* App._optional_int
_optional_int(value, description) ==
    IF ~ParseInt(Strip(value)).ok
    THEN Raise("validation", <<"must be an integer", description>>)
    ELSE Ok(ParseInt(Strip(value)).val)

\* App._require_path: Path(value.strip()) must be a regular file.
_require_path(fs, value, description) ==
    LET path == Join(CWD, Strip(value))
    IN  IF ~IsFile(fs, path) THEN Raise("validation", <<"invalid", description>>)
        ELSE Ok(path)

\* flet: gif_path = Path(selected_gif_path[0]) must exist.
flet_gif_path(fs, value) ==
    LET path == Join(CWD, value)
    IN  IF ~Exists(fs, path) THEN Raise("validation", <<"invalid", "gif">>)
        ELSE Ok(path)

\* The width field of both variants: None when it strips to nothing.
WidthField(value) ==
    IF Strip(value) = <<>> THEN Ok(None)
    ELSE LET n == _optional_int(Strip(value), "width")
         IN  IF n.stage = "ok" THEN Ok(Some(n.val)) ELSE n

\* The first error of the checks in the order given, or "ok".
FirstError(checks) ==
    IF \A i \in 1..Len(checks) : checks[i].stage = "ok" THEN Ok(<<>>)
    ELSE checks[CHOOSE i \in 1..Len(checks) :
                    checks[i].stage # "ok" /\ \A j \in 1..(i - 1) : checks[j].stage = "ok"]

\* Mutant: only a file of that name counts.
OutputDirExists_FileOnly(fs, output_dir) == IsFile(fs, output_dir)

\* output_dir.exists()
OutputDirExists(fs, output_dir) == Exists(fs, output_dir)

\* The variant's write_config, as the handlers call it (flet passes no
\* frame_directory, so its default applies).
WriteConfig(v, fs, config_path, gif_id, title, file_pattern, width, height, frame_count) ==
    IF v = "Tkinter"
    THEN Tkinter_write_config(fs, config_path, gif_id, title, file_pattern,
                              width, height, frame_count)
    ELSE flet_write_config(fs, config_path, gif_id, title, file_pattern,
                           width, height, frame_count, FRAMES)

\* The outcome once write_config has answered.
ConfigOutcome(config) ==
    IF config.err # "none"
    THEN [stage |-> "config", err |-> <<config.err>>, fs |-> config.fs]
    ELSE [stage |-> "ok", err |-> <<>>, fs |-> config.fs]

\* The try block once export_frames has answered: write_config with the
\* count it returned.
ProduceExported(exported, v, output_dir, gif_id, title, file_pattern, target_height, target_width) ==
    IF exported.err # "none"
    THEN [stage |-> IF exported.stage = "loop" THEN "frame" ELSE "export",
          err |-> <<exported.err>>, fs |-> exported.fs,
          output_dir |-> output_dir, index |-> exported.index]
    ELSE [output_dir |-> output_dir, index |-> exported.index] @@
         ConfigOutcome(WriteConfig(v, exported.fs, Join(output_dir, CONFIG_JSON),
                                   gif_id, title, file_pattern, target_width,
                                   target_height, exported.ret[1]))

\* The try block once frames_dir.mkdir(parents=True, exist_ok=False) has
\* answered: export_frames into it.
ProduceMade(made, v, gif, output_dir, gif_id, title, file_pattern, target_height, target_width) ==
    IF made.err # "none"
    THEN [stage |-> "mkdir", err |-> <<made.err>>, fs |-> made.fs]
    ELSE ProduceExported(export_frames(made.fs, gif, Join(output_dir, FRAMES),
                                       file_pattern, target_height, target_width),
                         v, output_dir, gif_id, title, file_pattern,
                         target_height, target_width)

\* The body of the try block after the fields are read: the output
\* directory check, frames_dir.mkdir, export_frames, write_config.
Produce(v, fs, gif, title, gif_id, file_pattern, target_height, target_width, output_dir_name) ==
    IF OutputDirExists(fs, Join(BASE_DIR, output_dir_name))
    THEN [stage |-> "validation", err |-> <<"output directory exists">>,
          fs |-> fs]
    ELSE ProduceMade(PathMkdir(fs, Join(Join(BASE_DIR, output_dir_name), FRAMES),
                               TRUE, FALSE),
                     v, gif, Join(BASE_DIR, output_dir_name), gif_id, title,
                     file_pattern, target_height, target_width)

\* Mutant: only the handler's own ValueError is caught.
ExceptException_ValueError(stage) == stage = "validation"

\* except Exception as exc: the error is shown, nothing propagates.
ExceptException(stage) == TRUE

\* What the handler leaves on the screen, and whether the exception left it.
Report(outcome) ==
    IF outcome.stage = "ok"
    THEN [kind |-> "info", msg |-> <<"done">>, escaped |-> FALSE]
    ELSE IF ExceptException(outcome.stage)
    THEN [kind |-> "error", msg |-> outcome.err, escaped |-> FALSE]
    ELSE [kind |-> "none", msg |-> <<>>, escaped |-> TRUE]

\* The state a handler run leaves, from its outcome.
Finish(outcome) ==
    /\ dirs' = (IF "fs" \in DOMAIN outcome THEN outcome.fs.dirs ELSE dirs)
    /\ files' = (IF "fs" \in DOMAIN outcome THEN outcome.fs.files ELSE files)
    /\ shown' = [kind |-> Report(outcome).kind, msg |-> Report(outcome).msg]
    /\ result' = [stage |-> outcome.stage,
                  escaped |-> Report(outcome).escaped,
                  output_dir |-> IF "output_dir" \in DOMAIN outcome
                                 THEN outcome.output_dir ELSE <<>>,
                  index |-> IF "index" \in DOMAIN outcome
                            THEN outcome.index ELSE 0]
    /\ pc' = "reported"
    /\ UNCHANGED <<variant, gif_path, form, call>>

\* The outcome of the try block: the first failed check, or what Produce
\* does with the values read.
TryBlock(v, fs, checks) ==
    IF FirstError(checks).stage # "ok" THEN FirstError(checks)
    ELSE Produce(v, fs, checks[1].val, checks[2].val, checks[3].val,
                 checks[4].val, checks[5].val, checks[6].val, checks[7].val)

\* Tkinter: App.generate
generate ==
    /\ variant = "Tkinter"
    /\ pc \in {"idle", "reported"}
    /\ Finish(TryBlock("Tkinter", Fs,
                       <<_require_path(Fs, gif_path, "gif"),
                         _require_text(form.title, "title"),
                         _require_text(form.gif_id, "id"),
                         _require_text(form.file_pattern, "filePattern"),
                         _require_int(form.height, "height"),
                         WidthField(form.width),
                         _require_text(form.output_dir, "output directory")>>))

\* flet: generate_clicked
generate_clicked ==
    /\ variant = "flet"
    /\ pc \in {"idle", "reported"}
    /\ Finish(TryBlock("flet", Fs,
                       <<flet_gif_path(Fs, gif_path),
                         _require_text(form.title, "title"),
                         _require_text(form.gif_id, "id"),
                         _require_text(form.file_pattern, "filePattern"),
                         _require_int(form.height, "height"),
                         WidthField(form.width),
                         _require_text(form.output_dir, "output directory")>>))

\* The user goes on to another control: the message box has been dismissed
\* (it is modal).  shown stands for what the handler run that just finished
\* put on the screen; flet's status_text keeps its text until the next run
\* clears it (line 88), and nothing reads it.
Dismissed ==
    /\ pc' = "idle"
    /\ result' = NoResult
    /\ shown' = NothingShown

\* Tkinter: App.select_gif; the dialog returns "" when it is cancelled.
select_gif ==
    /\ variant = "Tkinter"
    /\ pc \in {"idle", "reported"}
    /\ \E path \in GifTexts :
           gif_path' = (IF path # <<>> THEN path ELSE gif_path)
    /\ Dismissed
    /\ UNCHANGED <<variant, dirs, files, form, call>>

\* Tkinter: typing in the entry bound to App.gif_path.
type_gif_path ==
    /\ variant = "Tkinter"
    /\ pc \in {"idle", "reported"}
    /\ \E text \in GifTexts : gif_path' = text
    /\ Dismissed
    /\ UNCHANGED <<variant, dirs, files, form, call>>

\* flet: handle_file_picker_result; e.files is empty when cancelled.
handle_file_picker_result ==
    /\ variant = "flet"
    /\ pc \in {"idle", "reported"}
    /\ \E e_files \in {<<>>} \cup {<<p>> : p \in GifTexts} :
           gif_path' = (IF e_files # <<>> THEN e_files[1] ELSE <<>>)
    /\ Dismissed
    /\ UNCHANGED <<variant, dirs, files, form, call>>

\* Typing in one of the text fields (StringVar / TextField.value).
edit_field ==
    /\ pc \in {"idle", "reported"}
    /\ \E f \in Fields : \E text \in FieldTexts[f] :
           form' = [form EXCEPT ![f] = text]
    /\ Dismissed
    /\ UNCHANGED <<variant, dirs, files, gif_path, call>>

Init ==
    /\ variant \in Variants
    /\ dirs = InitFs(GifA).dirs
    /\ files = InitFs(GifA).files
    /\ gif_path = <<>>
    /\ form = EmptyForm
    /\ call = NoCall
    /\ result = NoResult
    /\ shown = NothingShown
    /\ pc = "idle"

Next ==
    \/ generate
    \/ generate_clicked
    \/ select_gif
    \/ type_gif_path
    \/ handle_file_picker_result
    \/ edit_field

Spec == Init /\ [][Next]_vars

(***************************************************************************)
(* Direct calls of export_frames: the arguments are drawn at the start,    *)
(* one step makes the call.                                                *)
(***************************************************************************)
DirO == Append(BASE_DIR, <<"o">>)

\* Destinations: a path whose parents are missing, an existing directory,
\* a file, and paths below a file.
ExportDirs ==
    {Append(DirO, FRAMES),
     Append(BASE_DIR, <<"e">>),
     Append(BASE_DIR, MAIN_PY),
     Append(Append(BASE_DIR, MAIN_PY), FRAMES),
     Append(Append(Append(BASE_DIR, MAIN_PY), <<"x">>), FRAMES)}

ExportArgs(g, d, p, h, w) ==
    [op |-> "export_frames", gif_path |-> g, frames_dir |-> d,
     file_pattern |-> p, target_height |-> h, target_width |-> w]

\* Calls over the sources of InitFs(GifA).
SampleExportCalls ==
    {ExportArgs(g, d, p, h, w) :
        g \in {PathA, PathB, PathC, PathN, << <<"s">> >>, << <<"s">>, <<"z">> >>},
        d \in ExportDirs,
        p \in {<<"p", "-">>, <<"f">>},
        h \in {-1, 0, 2, 3},
        w \in {None, Some(-2), Some(0), Some(4)}}

\* A source of two frames, w x h and h x w.
SweepGif(w, h) ==
    [kind |-> "image",
     frames |-> <<Frame(<<"S", 0>>, w, h), Frame(<<"S", 1>>, h, w)>>]

InitExport ==
    /\ variant \in Variants
    /\ gif_path = <<>>
    /\ form = EmptyForm
    /\ result = NoResult
    /\ shown = NothingShown
    /\ pc = "ready"
    /\ \/ /\ dirs = InitFs(GifA).dirs
          /\ files = InitFs(GifA).files
          /\ call \in SampleExportCalls
       \/ \E w \in 1..MaxDim, h \in 1..MaxDim :
              /\ dirs = InitFs(SweepGif(w, h)).dirs
              /\ files = InitFs(SweepGif(w, h)).files
              /\ call \in {ExportArgs(PathA, Append(DirO, FRAMES), <<"p", "-">>,
                                      th, None) : th \in 1..MaxHeight}

export_frames_call ==
    /\ pc = "ready"
    /\ call.op = "export_frames"
    /\ LET r == export_frames(Fs, call.gif_path, call.frames_dir,
                              call.file_pattern, call.target_height,
                              call.target_width)
       IN  /\ dirs' = r.fs.dirs
           /\ files' = r.fs.files
           /\ result' = [stage |-> r.stage, err |-> r.err, ret |-> r.ret,
                         written |-> r.written, index |-> r.index]
    /\ pc' = "done"
    /\ UNCHANGED <<variant, gif_path, form, call, shown>>

NextExport == export_frames_call

SpecExport == InitExport /\ [][NextExport]_vars

(***************************************************************************)
(* Direct calls of write_config.                                           *)
(***************************************************************************)
IMAGES == <<"i", "m", "a", "g", "e", "s">>

\* The Tkinter write_config takes no frame_directory; a caller of the flet
\* one may leave it out (FRAMES, the default) or pass one.
ConfigCalls ==
    {[op |-> "write_config", variant |-> v,
      config_path |-> Append(Append(BASE_DIR, <<"e">>), CONFIG_JSON),
      gif_id |-> i, title |-> t, file_pattern |-> <<"p", "-">>, width |-> w,
      height |-> h, frame_count |-> n, frame_directory |-> d] :
        v \in Variants,
        i \in {<<"i">>, <<"a", "\"", "b">>},
        t \in {<<"T">>, <<"\\", "n">>},
        w \in {None, Some(-1), Some(0), Some(64)},
        h \in {0, 7, 64},
        n \in {0, 3, 12},
        d \in {FRAMES, IMAGES}}

InitConfig ==
    /\ dirs = InitFs(GifA).dirs
    /\ files = InitFs(GifA).files
    /\ gif_path = <<>>
    /\ form = EmptyForm
    /\ result = NoResult
    /\ shown = NothingShown
    /\ pc = "ready"
    /\ call \in {c \in ConfigCalls : c.variant = "Tkinter" => c.frame_directory = FRAMES}
    /\ variant = call.variant

write_config_call ==
    /\ pc = "ready"
    /\ call.op = "write_config"
    /\ LET r == IF variant = "Tkinter"
                THEN Tkinter_write_config(Fs, call.config_path, call.gif_id,
                                          call.title, call.file_pattern,
                                          call.width, call.height,
                                          call.frame_count)
                ELSE flet_write_config(Fs, call.config_path, call.gif_id,
                                       call.title, call.file_pattern,
                                       call.width, call.height,
                                       call.frame_count, call.frame_directory)
       IN  /\ dirs' = r.fs.dirs
           /\ files' = r.fs.files
           /\ result' = [stage |-> "done", err |-> r.err]
    /\ pc' = "done"
    /\ UNCHANGED <<variant, gif_path, form, call, shown>>

NextConfig == write_config_call

SpecConfig == InitConfig /\ [][NextConfig]_vars

(***************************************************************************)
(* Properties of export_frames, over SpecExport.                           *)
(***************************************************************************)
ExportDone == pc = "done" /\ call.op = "export_frames"

\* The frames of the source the call was given (the call leaves it as it is).
SourceFrames == files[call.gif_path].frames

\* The decimal numeral of an index below 100, written out digit by digit.
Numeral(i) ==
    IF i < 10 THEN <<Digits[i + 1]>>
    ELSE <<Digits[(i \div 10) + 1], Digits[(i % 10) + 1]>>

\* The path of the file for frame index i of a call.
FramePath(dir, pattern, i) == Append(dir, pattern \o Numeral(i) \o <<".", "p", "n", "g">>)

\* The PNG files directly in a directory.
PngsIn(dir) == {p \in DOMAIN files : Parent(p) = dir /\ files[p].kind = "png"}

\* C1: a call of export_frames that raises no error on a source of N frames
\* returns N, has written N files, and leaves exactly N PNG files in the
\* destination directory.
C1_CountEqualsFrames ==
    (ExportDone /\ result.err = "none") =>
        /\ result.ret = Some(Len(SourceFrames))
        /\ Cardinality({result.written[i] : i \in 1..Len(result.written)}) = Len(SourceFrames)
        /\ Cardinality(PngsIn(call.frames_dir)) = Len(SourceFrames)
        /\ result.ret[1] = Cardinality(PngsIn(call.frames_dir))

C1_Witness ==
    /\ ExportDone
    /\ result.err = "none"
    /\ result.ret = Some(3)
    /\ Cardinality(PngsIn(call.frames_dir)) = 3

\* The integers nearest to n / d (two of them on a tie), for n >= 0, d >= 1.
Nearest(n, d) == {q \in {n \div d, (n \div d) + 1} : 2 * (IF n >= q * d THEN n - q * d ELSE q * d - n) <= d}

\* C2 as stated: with target_width omitted and a positive target_height,
\* every decodable frame is resized to round(w * target_height / h) by
\* target_height, from its own size w x h.
C2_RoundToNearest ==
    (/\ ExportDone
     /\ result.stage = "loop"
     /\ call.target_width = None
     /\ call.target_height >= 1
     /\ \A i \in 1..Len(SourceFrames) : SourceFrames[i].ok) =>
        \A i \in 1..Len(SourceFrames) :
            LET path == FramePath(call.frames_dir, call.file_pattern, i - 1)
            IN  /\ path \in DOMAIN files
                /\ files[path].size[2] = call.target_height
                /\ files[path].size[1] \in Nearest(SourceFrames[i].size[1] * call.target_height, SourceFrames[i].size[2])

\* C2 amended: with target_width omitted, every frame export_frames writes
\* has height target_height and a width that is never rounded up: it is
\* floor(w * target_height / h), or one less than the quotient when h
\* divides w * target_height (the float product can fall just below it).
C2_Truncates ==
    (ExportDone /\ call.target_width = None) =>
        \A i \in 1..Len(result.written) :
            LET img == files[result.written[i]]
                n == SourceFrames[i].size[1] * call.target_height
                d == SourceFrames[i].size[2]
            IN  /\ img.size[2] = call.target_height
                /\ \/ img.size[1] = n \div d
                   \/ n % d = 0 /\ img.size[1] = (n \div d) - 1

\* A frame was written whose width is the quotient truncated, where rounding
\* to nearest would have given one more.
C2_Witness ==
    /\ ExportDone
    /\ call.target_width = None
    /\ \E i \in 1..Len(result.written) :
           LET n == SourceFrames[i].size[1] * call.target_height
               d == SourceFrames[i].size[2]
           IN  /\ 2 * (n % d) > d
               /\ files[result.written[i]].size = <<n \div d, call.target_height>>

\* C6 as stated: when target_width is given as an integer, every frame
\* written has size exactly (target_width, target_height).
C6_GivenWidthIsUsed ==
    (ExportDone /\ call.target_width # None) =>
        \A i \in 1..Len(result.written) :
            files[result.written[i]].size = <<call.target_width[1], call.target_height>>

\* C7: after a call that completes on a source of N frames, the files
\* written are, in order, pattern + i + ".png" for i = 0..N-1 in the
\* destination directory, and file i holds frame i of the source.
C7_NamesInFrameOrder ==
    (ExportDone /\ result.err = "none") =>
        /\ Len(result.written) = Len(SourceFrames)
        /\ \A i \in 1..Len(SourceFrames) :
               /\ result.written[i] = FramePath(call.frames_dir, call.file_pattern, i - 1)
               /\ files[result.written[i]].px = SourceFrames[i].px
        /\ PngsIn(call.frames_dir) = {FramePath(call.frames_dir, call.file_pattern, i) : i \in 0..(Len(SourceFrames) - 1)}

\* A call wrote eleven frames: the last index has two digits.
C7_Witness ==
    /\ ExportDone
    /\ result.err = "none"
    /\ Len(result.written) = 11
    /\ result.written[11] = Append(call.frames_dir, call.file_pattern \o <<"1", "0", ".", "p", "n", "g">>)

\* The destination of the call is a file, or lies below one, in the file
\* system the call started in.
DestinationBlocked ==
    \/ IsFile(InitFs(GifA), call.frames_dir)
    \/ UnderFile(InitFs(GifA), call.frames_dir)

\* C9: a call whose destination is, or lies below, an existing file fails
\* with a file system error in mkdir, before the source is opened, and
\* writes nothing.
C9_BlockedDestinationFails ==
    (ExportDone /\ DestinationBlocked) =>
        /\ result.stage = "mkdir"
        /\ result.err \in {"FileExistsError", "NotADirectoryError"}
        /\ result.written = <<>>
        /\ dirs = InitFs(GifA).dirs
        /\ DOMAIN files = DOMAIN InitFs(GifA).files

C9_Witness ==
    /\ ExportDone
    /\ call.frames_dir = Append(Append(BASE_DIR, MAIN_PY), FRAMES)
    /\ call.gif_path = PathA
    /\ result.err = "NotADirectoryError"

(***************************************************************************)
(* Properties of write_config, over SpecConfig.                            *)
(***************************************************************************)
\* The descriptor of section 3 for the inputs of the call, its constant
\* fields written out.
Descriptor ==
    <<"obj",
      << <<"id", <<"str", call.gif_id>> >>,
         <<"displayName", <<"str", call.title>> >>,
         <<"frameDirectory", <<"str", <<"f", "r", "a", "m", "e", "s">> >> >>,
         <<"filePattern", <<"str", call.file_pattern>> >>,
         <<"frameCount", <<"int", call.frame_count>> >>,
         <<"frameExtension", <<"str", <<"p", "n", "g">> >> >>,
         <<"frameSize",
           <<"obj", << <<"width", IF call.width = <<>> THEN <<"null">> ELSE <<"int", call.width[1]>> >>,
                       <<"height", <<"int", call.height>> >> >> >> >>,
         <<"template", <<"bool", FALSE>> >>,
         <<"metric", <<"str", <<"c", "p", "u">> >> >>,
         <<"speedPolicy",
           <<"obj", << <<"type", <<"str", <<"c", "p", "u", "L", "i", "n", "e", "a", "r">> >> >>,
                       <<"minInterval", <<"float", 1, -2>> >>,
                       <<"maxInterval", <<"float", 4, -1>> >> >> >> >> >> >>

\* C5 as stated: the file write_config wrote, parsed back, is the descriptor
\* of the call's inputs, with frameDirectory "frames" and the other constant
\* fields whatever the caller passed, in both variants.
C5_RoundTripWithConstants ==
    (pc = "done" /\ call.op = "write_config") =>
        /\ call.config_path \in DOMAIN files
        /\ Loads(files[call.config_path].text) = Descriptor

(***************************************************************************)
(* Properties of the generate handlers, over Spec.                         *)
(***************************************************************************)
\* The form and the GIF path hold one of the validation errors of section
\* 7: no regular file at the source path (nothing selected, a directory, a
\* missing path), an empty required field, a height or width that is not an
\* integer, an output directory that exists.
ValidationInput ==
    \/ ~IsFile(Fs, Join(CWD, Strip(gif_path)))
    \/ \E f \in {"title", "gif_id", "file_pattern", "height", "output_dir"} : Strip(form[f]) = <<>>
    \/ ~ParseInt(Strip(form.height)).ok
    \/ Strip(form.width) # <<>> /\ ~ParseInt(Strip(form.width)).ok
    \/ Exists(Fs, Join(BASE_DIR, Strip(form.output_dir)))

GenerateRejects == shown'.kind = "error" /\ dirs' = dirs /\ files' = files

\* C3 as stated: in both variants, a generate on an input with a validation
\* error reports the error and changes nothing in the file system.
C3_ValidationChangesNothing == [][(pc' = "reported" /\ ValidationInput) => GenerateRejects]_vars

\* C4: a generate whose output directory name already exists, whoever left
\* it there, reports an error and creates or changes no directory or file.
C4_ExistingOutputDirRejected ==
    [][(pc' = "reported" /\ Exists(Fs, Join(BASE_DIR, Strip(form.output_dir)))) => GenerateRejects]_vars

\* A generate was rejected for the output directory o that an earlier
\* generate left behind.
C4_Witness ==
    /\ pc = "reported"
    /\ result.stage = "validation"
    /\ shown.msg = <<"output directory exists">>
    /\ Strip(form.output_dir) = <<"o">>
    /\ Append(DirO, FRAMES) \in dirs

\* The files at or below a directory.
FilesBelow(dir) ==
    {p \in DOMAIN files : Len(p) > Len(dir) /\ SubSeq(p, 1, Len(dir)) = dir}

\* The source the handler opened.
GenerateSource == files[Join(CWD, Strip(gif_path))]

\* C8: when generate fails at frame k of the export, the output directory
\* holds the PNG files of frames 0..k-1, each with its frame, and nothing
\* else (no config.json); the error is shown and does not leave the handler.
C8_FramesBeforeFailureRemain ==
    (pc = "reported" /\ result.stage = "frame") =>
        /\ shown.kind = "error"
        /\ ~result.escaped
        /\ FilesBelow(result.output_dir) = {FramePath(Append(result.output_dir, FRAMES), Strip(form.file_pattern), i) : i \in 0..(result.index - 1)}
        /\ \A i \in 0..(result.index - 1) :
               LET path == FramePath(Append(result.output_dir, FRAMES), Strip(form.file_pattern), i)
               IN  /\ files[path].kind = "png"
                   /\ files[path].px = GenerateSource.frames[i + 1].px
        /\ Append(result.output_dir, CONFIG_JSON) \notin DOMAIN files

\* The second frame of /s/b failed to decode: p-0.png is all there is.
C8_Witness ==
    /\ pc = "reported"
    /\ result.stage = "frame"
    /\ Join(CWD, Strip(gif_path)) = PathB
    /\ result.index = 1
    /\ FilesBelow(DirO) = {Append(Append(DirO, FRAMES), <<"p", "-", "0", ".", "p", "n", "g">>)}

\* The value of a member of a JSON object.
Member(obj, key) == obj[2][CHOOSE i \in 1..Len(obj[2]) : obj[2][i][1] = key][2]

\* The config.json a successful generate wrote, parsed.
WrittenConfig == Loads(files[Append(result.output_dir, CONFIG_JSON)].text)

\* C10 as stated: after a successful generate, for every integer in the
\* width field, zero included, config.json agrees with the frames: its
\* width is null exactly when the field was empty, an integer width is the
\* width of every frame, and its height is the height of every frame.
C10_ConfigMatchesFrames ==
    (pc = "reported" /\ result.stage = "ok") =>
        LET size == Member(WrittenConfig, "frameSize")
            frames == PngsIn(Append(result.output_dir, FRAMES))
        IN  /\ (Member(size, "width") = <<"null">>) <=> (Strip(form.width) = <<>>)
            /\ Member(size, "width") # <<"null">> =>
                   \A p \in frames : files[p].size[1] = Member(size, "width")[2]
            /\ \A p \in frames : files[p].size[2] = Member(size, "height")[2]
====
